---------------------------- MODULE Spec2Model ----------------------------
(***************************************************************************)
(* Model of src/app.py: the retry decorator, transcript retrieval, the     *)
(* two cached functions and the Streamlit script with its button handlers. *)
(*                                                                         *)
(* Text is a sequence of one-character strings; a URL is a sequence of     *)
(* tokens, where "youtu.be", "youtube.com" and "v=" stand for those        *)
(* substrings and every other token is a single character.                 *)
(***************************************************************************)
EXTENDS Integers, Sequences, FiniteSets, TLC

VARIABLES
    retry_args,        \* arguments of one call of a retry_on_failure wrapper
    retry_result,      \* what that call did (NotCalled before it)
    gt_args,           \* arguments and provider behaviour of one get_transcript call
    gt_result,         \* what that call did (NotCalled before it)
    id_args,           \* a URL whose video id is extracted, and how it was built
    id_result,         \* what the extraction gave (NotCalled before it)
    url,               \* st.text_input "Enter the URL of the YouTube video"
    target_language,   \* st.selectbox "Select transcript language"
    user_question,     \* st.text_input "Ask a question about the video content"
    session_state,     \* st.session_state
    transcript_cache,  \* entries of @st.cache_data(ttl=7200) get_cached_transcript
    summary_cache,     \* entries of @st.cache_data(ttl=3600) generate_cached_summary
    now,               \* wall clock, seconds
    run,               \* what the last script run did
    audio_args,        \* the audio variant: URL entered or not, and what its calls do
    nruns              \* number of script runs triggered by a button so far

vars == <<retry_args, retry_result, gt_args, gt_result, id_args, id_result,
          url, target_language,
          user_question, session_state, transcript_cache, summary_cache, now,
          run, audio_args, nruns>>

retry_vars == <<retry_args, retry_result>>
id_vars == <<id_args, id_result>>
gt_vars == <<gt_args, gt_result, id_vars>>
app_vars == <<url, target_language, user_question, session_state,
              transcript_cache, summary_cache, now, run, audio_args, nruns>>

(***************************************************************************)
(* Python values                                                           *)
(***************************************************************************)
None == [none |-> TRUE]

NotCalled == [called |-> FALSE]

Exc(type, msg) == [type |-> type, msg |-> msg]

\* last_exception = None
NoException == Exc("NoneType", "")

\* what `raise None` raises
RaiseNoneError == Exc("TypeError", "exceptions must derive from BaseException")

Return(v) == [kind |-> "return", value |-> v]

Raise(e) == [kind |-> "raise", exc |-> e]

(***************************************************************************)
(* str operations                                                          *)
(***************************************************************************)
\* the first position from i on at which sub occurs in s; 0 when there is none
RECURSIVE find_from(_, _, _)
find_from(s, sub, i) ==
    IF i + Len(sub) - 1 > Len(s) THEN 0
    ELSE IF SubSeq(s, i, i + Len(sub) - 1) = sub THEN i
    ELSE find_from(s, sub, i + 1)

\* str.find, 1-based; 0 when sub does not occur
find(s, sub) == find_from(s, sub, 1)

\* sub in s
contains(s, sub) == find(s, sub) # 0

\* s.split(sep)
RECURSIVE split(_, _)
split(s, sep) ==
    LET i == find(s, sep)
    IN  IF i = 0
        THEN <<s>>
        ELSE <<SubSeq(s, 1, i - 1)>> \o split(SubSeq(s, i + Len(sep), Len(s)), sep)

isspace(c) == c = " "

\* s.strip()
RECURSIVE strip(_)
strip(s) ==
    IF s = <<>> THEN s
    ELSE IF isspace(Head(s)) THEN strip(Tail(s))
    ELSE IF isspace(s[Len(s)]) THEN strip(SubSeq(s, 1, Len(s) - 1))
    ELSE s

\* sep.join(parts)
RECURSIVE join(_, _)
join(sep, parts) ==
    IF parts = <<>> THEN <<>>
    ELSE IF Len(parts) = 1 THEN parts[1]
    ELSE parts[1] \o sep \o join(sep, Tail(parts))

(***************************************************************************)
(* retry_on_failure                                                        *)
(*                                                                         *)
(* func[i] is what the i-th invocation of the wrapped function does:       *)
(* Return(v) or Raise(e).                                                  *)
(***************************************************************************)
MaxRetries == 3

Delays == {1, 2}

ReturnValues == {"r1", "r2"}

Exceptions == {Exc("ValueError", "m1"), Exc("ValueError", "m2"), Exc("KeyError", "m1")}

FuncOutcomes == {Return(v) : v \in ReturnValues} \cup {Raise(e) : e \in Exceptions}

record_exception_first(last_exception, e) ==
    IF last_exception = NoException THEN e ELSE last_exception

\* last_exception = e
record_exception(last_exception, e) == e

sleeps_after_always(attempt, max_retries) == TRUE

\* if attempt < max_retries - 1
sleeps_after(attempt, max_retries) == attempt < max_retries - 1

sleep_length_backoff(delay, attempt) == delay * (attempt + 1)

\* time.sleep(delay)
sleep_length(delay, attempt) == delay

\* for attempt in range(max_retries): ... ; raise last_exception
RECURSIVE wrapper(_, _, _, _, _, _)
wrapper(func, max_retries, delay, attempt, last_exception, sleeps) ==
    IF attempt >= max_retries
    THEN [kind |-> "raise",
          exc |-> IF last_exception = NoException THEN RaiseNoneError ELSE last_exception,
          calls |-> attempt, sleeps |-> sleeps]
    ELSE IF func[attempt + 1].kind = "return"
    THEN [kind |-> "return", value |-> func[attempt + 1].value,
          calls |-> attempt + 1, sleeps |-> sleeps]
    ELSE wrapper(func, max_retries, delay, attempt + 1,
                 record_exception(last_exception, func[attempt + 1].exc),
                 IF sleeps_after(attempt, max_retries)
                 THEN Append(sleeps, sleep_length(delay, attempt))
                 ELSE sleeps)

retry_on_failure(max_retries, delay, func) ==
    wrapper(func, max_retries, delay, 0, NoException, <<>>)

(***************************************************************************)
(* Specification of the retry wrapper alone                                *)
(***************************************************************************)
AppIdle ==
    /\ url = <<>>
    /\ target_language = "en"
    /\ user_question = ""
    /\ session_state = [k \in {} |-> <<>>]
    /\ transcript_cache = [k \in {} |-> None]
    /\ summary_cache = [k \in {} |-> None]
    /\ now = 0
    /\ run = NotCalled
    /\ audio_args = NotCalled
    /\ nruns = 0

IdIdle ==
    /\ id_args = NotCalled
    /\ id_result = NotCalled

GtIdle ==
    /\ gt_args = NotCalled
    /\ gt_result = NotCalled
    /\ IdIdle

RetryIdle ==
    /\ retry_args = NotCalled
    /\ retry_result = NotCalled

RetryInit ==
    /\ retry_args \in [max_retries : 0..MaxRetries, delay : Delays,
                       func : [1..MaxRetries -> FuncOutcomes]]
    /\ retry_result = NotCalled
    /\ GtIdle
    /\ AppIdle

CallWrapper ==
    /\ retry_result = NotCalled
    /\ retry_result' = retry_on_failure(retry_args.max_retries, retry_args.delay,
                                        retry_args.func)
    /\ UNCHANGED <<retry_args, gt_vars, app_vars>>

RetryNext == CallWrapper

SpecRetry == RetryInit /\ [][RetryNext]_vars


\* C1: with max_retries >= 1 and a function that raises on its first k calls
\* (k < max_retries) and then returns, the wrapper returns that value after
\* exactly k+1 invocations and exactly k sleeps, each of length delay,
\* whatever the exceptions were.
C1_SucceedsAfterKFailures ==
    retry_result # NotCalled =>
        \A k \in 0..(MaxRetries - 1) :
            ( /\ retry_args.max_retries >= 1
              /\ k < retry_args.max_retries
              /\ \A i \in 1..k : retry_args.func[i].kind = "raise"
              /\ retry_args.func[k + 1].kind = "return" )
            => /\ retry_result.kind = "return"
               /\ retry_result.value = retry_args.func[k + 1].value
               /\ retry_result.calls = k + 1
               /\ retry_result.sleeps = [i \in 1..k |-> retry_args.delay]

\* two failures of different kinds, then success, with max_retries = 3
C1_Witness ==
    /\ retry_result # NotCalled
    /\ retry_args.max_retries = 3
    /\ retry_args.func[1] = Raise(Exc("ValueError", "m1"))
    /\ retry_args.func[2] = Raise(Exc("KeyError", "m1"))
    /\ retry_args.func[3].kind = "return"
    /\ retry_result.kind = "return"
    /\ Len(retry_result.sleeps) = 2

\* C2: with max_retries >= 1 and a function that raises on every call, the
\* wrapper invokes it exactly max_retries times, sleeps exactly
\* max_retries - 1 times and raises the exception of the last attempt.
C2_RaisesLastAfterNAttempts ==
    ( /\ retry_result # NotCalled
      /\ retry_args.max_retries >= 1
      /\ \A i \in 1..retry_args.max_retries : retry_args.func[i].kind = "raise" )
        => /\ retry_result.kind = "raise"
           /\ retry_result.exc = retry_args.func[retry_args.max_retries].exc
           /\ retry_result.calls = retry_args.max_retries
           /\ Len(retry_result.sleeps) = retry_args.max_retries - 1

\* three failures with three different exceptions, max_retries = 3
C2_Witness ==
    /\ retry_result # NotCalled
    /\ retry_args.max_retries = 3
    /\ retry_args.func[1] = Raise(Exc("ValueError", "m1"))
    /\ retry_args.func[2] = Raise(Exc("KeyError", "m1"))
    /\ retry_args.func[3] = Raise(Exc("ValueError", "m2"))
    /\ retry_result.kind = "raise"

(***************************************************************************)
(* The transcript provider (YouTubeTranscriptApi) as get_transcript sees   *)
(* it.  provider.list_failures: how many list_transcripts calls fail       *)
(* before one succeeds; provider.tracks: the caption tracks of the video;  *)
(* provider.translate_ok: whether translate() succeeds; provider.fetch and *)
(* provider.fetch_translated: what fetch() does on an original and on a    *)
(* translated track.                                                       *)
(***************************************************************************)
MaxFragments == 2

options == <<"en", "hi", "mr", "es", "fr", "de", "ja", "ko", "ru">>

Languages == {options[i] : i \in 1..Len(options)}

Track(code, generated) ==
    [language_code |-> code, is_generated |-> generated, translated |-> FALSE]

Tracks == {Track("en", FALSE), Track("en", TRUE), Track("fr", FALSE)}

\* a fragment with a text, or a part that has no text at all
Fragment(text) == [has_text |-> TRUE, text |-> text]

NoTextPart == [has_text |-> FALSE, text |-> <<>>]

FragmentTexts == {<<>>, <<" ", "a">>}

Parts == {Fragment(t) : t \in FragmentTexts} \cup {NoTextPart}

PartLists == UNION {[1..n -> Parts] : n \in 0..MaxFragments}

FetchError == Exc("CouldNotRetrieveTranscript", "fetch")

FetchOutcomes == {Raise(FetchError)} \cup {Return(p) : p \in PartLists}

TranslatedFetchOutcomes ==
    {Raise(FetchError), Return(<<>>), Return(<<Fragment(<<"b">>)>>)}

Providers ==
    [list_failures : 0..3, tracks : SUBSET Tracks, translate_ok : BOOLEAN,
     fetch : FetchOutcomes, fetch_translated : TranslatedFetchOutcomes]

\* YouTubeTranscriptApi.list_transcripts(video_id), the n-th call
list_transcripts(provider, n) ==
    IF n <= provider.list_failures
    THEN Raise(Exc("TranscriptsDisabled", "list"))
    ELSE Return(provider.tracks)

\* transcript_list.find_transcript(language_codes): for each code in order,
\* the manually created track of that language, else the generated one
RECURSIVE find_transcript(_, _)
find_transcript(transcript_list, language_codes) ==
    IF language_codes = <<>>
    THEN Raise(Exc("NoTranscriptFound", "find"))
    ELSE LET code == Head(language_codes)
             manual == {t \in transcript_list :
                            t.language_code = code /\ ~t.is_generated}
             generated == {t \in transcript_list :
                            t.language_code = code /\ t.is_generated}
         IN  IF manual # {} THEN Return(CHOOSE t \in manual : TRUE)
             ELSE IF generated # {} THEN Return(CHOOSE t \in generated : TRUE)
             ELSE find_transcript(transcript_list, Tail(language_codes))

\* transcript.translate(target_lang)
translate(provider, transcript, target_lang) ==
    IF provider.translate_ok
    THEN Return([language_code |-> target_lang,
                 is_generated |-> transcript.is_generated, translated |-> TRUE])
    ELSE Raise(Exc("NotTranslatable", "translate"))

\* transcript.fetch()
fetch(provider, transcript) ==
    IF transcript.translated THEN provider.fetch_translated ELSE provider.fetch

(***************************************************************************)
(* get_transcript                                                          *)
(***************************************************************************)
Urls ==
    { <<"youtube.com", "/", "w", "?", "v=", "x", "&", "t">>,
      <<"youtu.be", "/", "x", "?", "t">>,
      <<"e", "/", "x">>,
      <<"youtu.be">>,
      <<"youtube.com", "/", "x">> }

st_error(text) == [level |-> "error", text |-> text]

st_warning(text) == [level |-> "warning", text |-> text]

IndexError == Exc("IndexError", "list index out of range")

\* parts[i] of a Python list, i counted from 0
item(parts, i) ==
    IF i + 1 <= Len(parts) THEN Return(parts[i + 1]) ELSE Raise(IndexError)

\* the if/elif/else that derives video_id from url
video_id_of(u) ==
    IF contains(u, <<"youtu.be">>)
    THEN LET a == item(split(u, <<"youtu.be", "/">>), 1)
         IN  IF a.kind = "raise" THEN a ELSE item(split(a.value, <<"?">>), 0)
    ELSE IF contains(u, <<"youtube.com">>)
    THEN LET a == item(split(u, <<"v=">>), 1)
         IN  IF a.kind = "raise" THEN a ELSE item(split(a.value, <<"&">>), 0)
    ELSE [kind |-> "else"]

(***************************************************************************)
(* Specification of the video id extraction alone: a URL of one of the two *)
(* recognized forms, built from a prefix, an id and what follows the id,   *)
(* or a URL of neither form.                                               *)
(***************************************************************************)
MaxIdLen == 2

MaxRest == 2

MaxOther == 3

SeqsUpTo(S, n) == UNION {[1..k -> S] : k \in 0..n}

IdChars == {"x", "y"}

VideoIds == SeqsUpTo(IdChars, MaxIdLen) \ {<<>>}

\* "h" stands for a scheme and host prefix such as https://www.
Prefixes == {<<>>, <<"h">>}

RestTokens == {"t", "&", "?", "/", "v=", "youtu.be", "youtube.com"}

Rests == SeqsUpTo(RestTokens, MaxRest)

\* ...youtube.com/watch?v=<id>, alone or followed by &<rest>
WatchUrls ==
    {[form |-> "watch", id |-> id,
      url |-> prefix \o <<"youtube.com", "/", "w", "?", "v=">> \o id \o tail] :
        prefix \in Prefixes, id \in VideoIds,
        tail \in {<<>>} \cup {<<"&">> \o rest : rest \in Rests}}

\* ...youtu.be/<id>, alone or followed by ?<rest>
ShortUrls ==
    {[form |-> "short", id |-> id,
      url |-> prefix \o <<"youtu.be", "/">> \o id \o tail] :
        prefix \in Prefixes, id \in VideoIds,
        tail \in {<<>>} \cup {<<"?">> \o rest : rest \in Rests}}

OtherTokens == {"e", "x", "/", "?", "v=", "youtu.be", "youtube.com"}

\* a URL the split rules of neither form apply to: it has no "youtu.be/",
\* and not both "youtube.com" and "v="
ShortLike(u) == contains(u, <<"youtu.be", "/">>)

WatchLike(u) == contains(u, <<"youtube.com">>) /\ contains(u, <<"v=">>)

OtherUrls ==
    {[form |-> "other", id |-> <<>>, url |-> u] :
        u \in {v \in SeqsUpTo(OtherTokens, MaxOther) : ~ShortLike(v) /\ ~WatchLike(v)}}

VideoIdInit ==
    /\ id_args \in WatchUrls \cup ShortUrls \cup OtherUrls
    /\ id_result = NotCalled
    /\ gt_args = NotCalled
    /\ gt_result = NotCalled
    /\ RetryIdle
    /\ AppIdle

ExtractVideoId ==
    /\ id_result = NotCalled
    /\ id_result' = video_id_of(id_args.url)
    /\ UNCHANGED <<id_args, gt_args, gt_result, retry_vars, app_vars>>

VideoIdNext == ExtractVideoId

SpecVideoId == VideoIdInit /\ [][VideoIdNext]_vars

\* C12: from a URL of the form ...youtube.com/watch?v=<id>&<rest> or
\* ...youtu.be/<id>?<rest> the extracted identifier is exactly <id>, whatever
\* <rest> contains; a URL of neither form yields no identifier.
C12_VideoIdExtracted ==
    id_result # NotCalled =>
        /\ id_args.form \in {"watch", "short"} => id_result = Return(id_args.id)
        /\ id_args.form = "other" => id_result.kind # "return"

\* what one execution of a function body did: its outcome, the messages it
\* showed, the provider calls it made and the external calls that failed
Did(outcome, msgs, list_calls, fetched, failed) ==
    [outcome |-> outcome, msgs |-> msgs, list_calls |-> list_calls,
     fetched |-> fetched, failed |-> failed]

\* text_parts: the stripped text of every part that has one
RECURSIVE text_parts_of(_)
text_parts_of(parts) ==
    IF parts = <<>> THEN <<>>
    ELSE IF Head(parts).has_text
    THEN <<strip(Head(parts).text)>> \o text_parts_of(Tail(parts))
    ELSE text_parts_of(Tail(parts))

is_empty_text_unstripped(full_text) == full_text = <<>>

\* if not full_text.strip()
is_empty_text(full_text) == strip(full_text) = <<>>

\* the try block "Fetch and combine transcript text"; translate_failed: the
\* translation before it failed and was reported with a warning
fetch_and_combine(provider, transcript, original_lang, translate_failed) ==
    LET f == fetch(provider, transcript)
        msgs == IF translate_failed
                THEN <<st_warning("Could not translate. Using original language")>>
                ELSE <<>>
        failed == IF translate_failed THEN {"translate"} ELSE {}
    IN  IF f.kind = "raise"
        THEN Did(Return(None),
                 Append(msgs, st_error("Transcript could not be processed")),
                 1, TRUE, failed \cup {"fetch"})
        ELSE IF f.value = <<>>
        THEN Did(Return(None), Append(msgs, st_error("Transcript is empty")),
                 1, TRUE, failed)
        ELSE LET full_text == join(<<" ">>, text_parts_of(f.value))
             IN  IF is_empty_text(full_text)
                 THEN Did(Return(None), Append(msgs, st_error("Transcript is empty")),
                          1, TRUE, failed)
                 ELSE Did(Return([text |-> full_text,
                                  original_language |-> original_lang]),
                          msgs, 1, TRUE, failed)

translation_failed_gives_up(provider, transcript, target_lang, original_lang) ==
    LET t == translate(provider, transcript, target_lang)
    IN  IF t.kind = "raise"
        THEN Did(Return(None),
                 <<st_warning("Could not translate. Using original language")>>,
                 1, FALSE, {"translate"})
        ELSE fetch_and_combine(provider, t.value, original_lang, FALSE)

\* "Try translation if needed", then fetch
translate_and_fetch(provider, transcript, target_lang, original_lang) ==
    IF target_lang # original_lang
    THEN LET t == translate(provider, transcript, target_lang)
         IN  IF t.kind = "raise"
             THEN fetch_and_combine(provider, transcript, original_lang, TRUE)
             ELSE fetch_and_combine(provider, t.value, original_lang, FALSE)
    ELSE fetch_and_combine(provider, transcript, original_lang, FALSE)

select_transcript_keeps_target_lang(transcript_list, target_lang) ==
    LET first == find_transcript(transcript_list, <<target_lang>>)
        second == find_transcript(transcript_list, <<"en">>)
    IN  IF first.kind = "return"
        THEN Return([transcript |-> first.value, original_lang |-> target_lang])
        ELSE IF second.kind = "return"
        THEN Return([transcript |-> second.value, original_lang |-> target_lang])
        ELSE find_transcript(transcript_list, <<>>)

\* the three nested find_transcript attempts
select_transcript(transcript_list, target_lang) ==
    LET first == find_transcript(transcript_list, <<target_lang>>)
        second == find_transcript(transcript_list, <<"en">>)
        third == find_transcript(transcript_list, <<>>)
    IN  IF first.kind = "return"
        THEN Return([transcript |-> first.value, original_lang |-> target_lang])
        ELSE IF second.kind = "return"
        THEN Return([transcript |-> second.value, original_lang |-> "en"])
        ELSE IF third.kind = "return"
        THEN Return([transcript |-> third.value,
                     original_lang |-> third.value.language_code])
        ELSE third

\* the body of the outer try, lines 312-395; n is the number of this
\* invocation, which is also the number of its list_transcripts call
get_transcript_try(u, target_lang, provider, n) ==
    LET video_id == video_id_of(u)
    IN  IF video_id.kind = "raise" THEN Did(video_id, <<>>, 0, FALSE, {})
        ELSE IF video_id.kind = "else"
        THEN Did(Return(None), <<st_error("Invalid YouTube URL format")>>, 0, FALSE, {})
        ELSE LET transcript_list == list_transcripts(provider, n)
             IN  IF transcript_list.kind = "raise"
                 THEN Did(Return(None),
                          <<st_error("Could not retrieve a transcript for this video")>>,
                          1, FALSE, {"list"})
                 ELSE LET sel == select_transcript(transcript_list.value, target_lang)
                      IN  IF sel.kind = "raise"
                          THEN Did(Return(None),
                                   <<st_error("No transcript available for this video")>>,
                                   1, FALSE, {})
                          ELSE translate_and_fetch(provider, sel.value.transcript,
                                                   target_lang, sel.value.original_lang)

outer_except_reraises(did) == did

\* except Exception as e: ... return None   (lines 397-400)
outer_except(did) ==
    IF did.outcome.kind = "raise"
    THEN Did(Return(None),
             Append(did.msgs, st_error("An unexpected error occurred")),
             did.list_calls, did.fetched, did.failed)
    ELSE did

\* the undecorated function, n-th invocation
get_transcript_func(u, target_lang, provider, n) ==
    outer_except(get_transcript_try(u, target_lang, provider, n))

RECURSIVE concat_msgs(_, _)
concat_msgs(dids, n) ==
    IF n = 0 THEN <<>> ELSE concat_msgs(dids, n - 1) \o dids[n].msgs

RECURSIVE sum_list_calls(_, _)
sum_list_calls(dids, n) ==
    IF n = 0 THEN 0 ELSE sum_list_calls(dids, n - 1) + dids[n].list_calls

get_transcript_max_retries == 3

get_transcript_delay == 2

\* what the decorated call did, from what each invocation did (dids) and
\* what the wrapper did with their outcomes (w)
retried(dids, w) ==
    [outcome |-> IF w.kind = "return" THEN Return(w.value) ELSE Raise(w.exc),
     msgs |-> concat_msgs(dids, w.calls),
     list_calls |-> sum_list_calls(dids, w.calls),
     fetched |-> \E n \in 1..w.calls : dids[n].fetched,
     failed |-> UNION {dids[n].failed : n \in 1..w.calls},
     sleeps |-> w.sleeps]

decorated(dids) ==
    retried(dids,
            retry_on_failure(get_transcript_max_retries, get_transcript_delay,
                [n \in 1..get_transcript_max_retries |-> dids[n].outcome]))

\* @retry_on_failure(max_retries=3, delay=2) def get_transcript(url, target_lang)
get_transcript(u, target_lang, provider) ==
    decorated([n \in 1..get_transcript_max_retries |->
                  get_transcript_func(u, target_lang, provider, n)])

(***************************************************************************)
(* Specification of get_transcript alone                                   *)
(***************************************************************************)
TranscriptInit ==
    /\ gt_args \in [url : Urls, target_lang : Languages, provider : Providers]
    /\ gt_result = NotCalled
    /\ IdIdle
    /\ RetryIdle
    /\ AppIdle

CallGetTranscript ==
    /\ gt_result = NotCalled
    /\ gt_result' = get_transcript(gt_args.url, gt_args.target_lang, gt_args.provider)
    /\ UNCHANGED <<gt_args, id_vars, retry_vars, app_vars>>

TranscriptNext == CallGetTranscript

SpecTranscript == TranscriptInit /\ [][TranscriptNext]_vars

GtCalled == gt_result # NotCalled

\* the url yields a video id, so the provider is asked for the track list
GtUrlOk == video_id_of(gt_args.url).kind = "return"

HasNonSpace(text) == \E i \in 1..Len(text) : text[i] # " "

IsRecord(v) == v # None /\ DOMAIN v = {"text", "original_language"}

NoTranscriptMsg == st_error("No transcript available for this video")

TranslateWarning == st_warning("Could not translate. Using original language")

Shown(m) == \E i \in 1..Len(gt_result.msgs) : gt_result.msgs[i] = m

\* C3: a failing list_transcripts request is retried, up to 3 attempts in
\* total; a list request that fails once or twice and would then succeed ends
\* in a transcript record.
C3_ListRequestRetried ==
    (GtCalled /\ GtUrlOk) =>
        LET p == gt_args.provider
            later == get_transcript(gt_args.url, gt_args.target_lang,
                                    [p EXCEPT !.list_failures = 0])
        IN  /\ p.list_failures >= 1 =>
                gt_result.list_calls = IF p.list_failures >= 3 THEN 3
                                       ELSE p.list_failures + 1
            /\ (p.list_failures \in {1, 2} /\ IsRecord(later.outcome.value)) =>
                gt_result.outcome = later.outcome

\* C6: get_transcript always returns, a record or None, and never raises; a
\* video without any caption track yields None.
C6_NeverRaises ==
    GtCalled =>
        /\ gt_result.outcome.kind = "return"
        /\ gt_result.outcome.value = None \/ IsRecord(gt_result.outcome.value)
        /\ gt_args.provider.tracks = {} => gt_result.outcome.value = None

\* a listed video without tracks: None and the "No transcript" message
C6_Witness ==
    /\ GtCalled
    /\ GtUrlOk
    /\ gt_args.provider.list_failures = 0
    /\ gt_args.provider.tracks = {}
    /\ gt_result.outcome = Return(None)
    /\ Shown(NoTranscriptMsg)

\* the selected track differs in language from the target: the call listed
\* the tracks and found one under a code other than target_lang
GtSelected ==
    /\ GtUrlOk
    /\ gt_args.provider.list_failures = 0
    /\ select_transcript(gt_args.provider.tracks, gt_args.target_lang).kind = "return"

GtSelection == select_transcript(gt_args.provider.tracks, gt_args.target_lang).value

\* the text the code builds from fetched parts
CombinedText(parts) == join(<<" ">>, text_parts_of(parts))

\* C7: when the target language differs from the selected track's, the
\* result is the translated track's text, or after a failed translate() the
\* original track's text with a warning; a failed translation alone never
\* turns a non-empty original transcript into a failure.
C7_TranslationFallback ==
    (GtCalled /\ GtSelected /\ GtSelection.original_lang # gt_args.target_lang) =>
        LET p == gt_args.provider
        IN  /\ (~p.translate_ok /\ p.fetch.kind = "return"
                  /\ HasNonSpace(CombinedText(p.fetch.value))) =>
                /\ gt_result.outcome =
                      Return([text |-> CombinedText(p.fetch.value),
                              original_language |-> GtSelection.original_lang])
                /\ Shown(TranslateWarning)
            /\ (p.translate_ok /\ p.fetch_translated.kind = "return"
                  /\ HasNonSpace(CombinedText(p.fetch_translated.value))) =>
                /\ gt_result.outcome =
                      Return([text |-> CombinedText(p.fetch_translated.value),
                              original_language |-> GtSelection.original_lang])
                /\ ~Shown(TranslateWarning)

\* target hi, only English tracks, translate() fails, the English track has text
C7_Witness ==
    /\ GtCalled
    /\ GtSelected
    /\ gt_args.target_lang = "hi"
    /\ GtSelection.original_lang = "en"
    /\ ~gt_args.provider.translate_ok
    /\ IsRecord(gt_result.outcome.value)
    /\ HasNonSpace(gt_result.outcome.value.text)
    /\ Shown(TranslateWarning)

\* C8: whenever the listed video has at least one caption track, a track is
\* selected and the call goes on to fetch; "No transcript available" is
\* reported only for an empty track list.
C8_AnyTrackSelected ==
    (GtCalled /\ GtUrlOk /\ gt_args.provider.list_failures = 0) =>
        /\ gt_args.provider.tracks # {} => (gt_result.fetched /\ ~Shown(NoTranscriptMsg))
        /\ Shown(NoTranscriptMsg) => gt_args.provider.tracks = {}

\* fetch() returned parts none of which has a non-whitespace text
Blank(f) ==
    /\ f.kind = "return"
    /\ \A i \in 1..Len(f.value) : ~f.value[i].has_text \/ ~HasNonSpace(f.value[i].text)

\* C10: a returned record has a text with a non-whitespace character; a fetch
\* that yields no fragments, or only empty or whitespace texts, gives None.
C10_RecordTextNonEmpty ==
    GtCalled =>
        /\ IsRecord(gt_result.outcome.value) => HasNonSpace(gt_result.outcome.value.text)
        /\ (Blank(gt_args.provider.fetch) /\ Blank(gt_args.provider.fetch_translated))
              => gt_result.outcome.value = None

\* an empty fragment followed by " a": the record's text is " a"
C10_Witness ==
    /\ GtCalled
    /\ gt_args.provider.fetch = Return(<<Fragment(<<>>), Fragment(<<" ", "a">>)>>)
    /\ IsRecord(gt_result.outcome.value)
    /\ gt_result.outcome.value.text = <<" ", "a">>

\* the video has a manually authored English track, its track list is
\* obtained, and the fragments of its original tracks fetch with some text
ManualEnglishVideo ==
    /\ GtUrlOk
    /\ gt_args.provider.list_failures = 0
    /\ Track("en", FALSE) \in gt_args.provider.tracks
    /\ gt_args.provider.fetch.kind = "return"
    /\ HasNonSpace(CombinedText(gt_args.provider.fetch.value))

HasTrackIn(code) == \E t \in gt_args.provider.tracks : t.language_code = code

\* the translation of a track, when one is made, fetches with some text too
TranslationHasText ==
    /\ gt_args.provider.fetch_translated.kind = "return"
    /\ HasNonSpace(CombinedText(gt_args.provider.fetch_translated.value))

transcript_ttl == 7200

summary_ttl == 3600

cache_fresh_forever(entry, t, ttl) == TRUE

\* the entry has not expired at time t
cache_fresh(entry, t, ttl) == t - entry.stored < ttl

cache_hit(cache, key, t, ttl) ==
    key \in DOMAIN cache /\ cache_fresh(cache[key], t, ttl)

\* store an entry; expired entries are dropped
cache_put(cache, key, entry, t, ttl) ==
    LET live == {k \in DOMAIN cache : cache_fresh(cache[k], t, ttl)} \cup {key}
    IN  [k \in live |-> IF k = key THEN entry ELSE cache[k]]

\* a miss: the function ran and did g; its return value is stored
transcript_miss(cache, key, t, g) ==
    [outcome |-> g.outcome, msgs |-> g.msgs,
     cache |-> IF g.outcome.kind = "return"
               THEN cache_put(cache, key,
                        [value |-> g.outcome.value, msgs |-> g.msgs, stored |-> t],
                        t, transcript_ttl)
               ELSE cache,
     executed |-> TRUE, list_calls |-> g.list_calls, failed |-> g.failed]

\* @st.cache_data(ttl=7200) def get_cached_transcript(url, target_lang='en')
get_cached_transcript(u, target_lang, provider, cache, t) ==
    IF cache_hit(cache, <<u, target_lang>>, t, transcript_ttl)
    THEN [outcome |-> Return(cache[<<u, target_lang>>].value),
          msgs |-> cache[<<u, target_lang>>].msgs,
          cache |-> cache, executed |-> FALSE, list_calls |-> 0, failed |-> {}]
    ELSE transcript_miss(cache, <<u, target_lang>>, t,
                         get_transcript(u, target_lang, provider))

\* client.chat.completions.create(...).choices[0].message.content
LlmOutcomes == {Raise(Exc("APIError", "llm")), Return(<<"s">>), Return(<<"z">>)}

\* @st.cache_data(ttl=3600) def generate_cached_summary(transcript_text)
generate_cached_summary(transcript_text, llm, cache, t) ==
    IF cache_hit(cache, transcript_text, t, summary_ttl)
    THEN [outcome |-> Return(cache[transcript_text].value), cache |-> cache,
          executed |-> FALSE, failed |-> {}]
    ELSE IF llm.kind = "raise"
    THEN [outcome |-> llm, cache |-> cache, executed |-> TRUE, failed |-> {"llm"}]
    ELSE [outcome |-> llm,
          cache |-> cache_put(cache, transcript_text,
                        [value |-> llm.value, msgs |-> <<>>, stored |-> t],
                        t, summary_ttl),
          executed |-> TRUE, failed |-> {}]

\* tts_audio(text): gTTS(text, lang).write_to_fp(fp)
TtsOutcomes == {Raise(Exc("gTTSError", "tts")), Return("audio")}

(***************************************************************************)
(* The script (lines 405-547).  One run executes it from the top with the  *)
(* widget values of the moment and at most one button pressed.             *)
(***************************************************************************)
NoCall == [called |-> FALSE]

\* what a handler did: the state it leaves, the messages shown, how it ended
\* ("completed", or "stopped" by st.stop()), the exception that left it, the
\* external calls that failed, the session keys written, and its
\* get_cached_transcript call
Ran(ss, tc, sc, msgs, ended, exc, failed, wrote, call) ==
    [session_state |-> ss, transcript_cache |-> tc, summary_cache |-> sc,
     msgs |-> msgs, ended |-> ended, exc |-> exc, failed |-> failed,
     wrote |-> wrote, call |-> call]

\* st.session_state[key] = value
ss_set(ss, key, value) ==
    [k \in DOMAIN ss \cup {key} |-> IF k = key THEN value ELSE ss[k]]

CachedCall(u, lang, g) ==
    [called |-> TRUE, key |-> <<u, lang>>, executed |-> g.executed,
     list_calls |-> g.list_calls, outcome |-> g.outcome]

\* summary_btn, after generate_cached_summary did sm
summary_generated(ss, sc, g, call, sm) ==
    IF sm.outcome.kind = "raise"
    THEN Ran(ss, g.cache, sm.cache,
             Append(g.msgs, st_error("Unable to generate summary")),
             "completed", NoException, g.failed \cup sm.failed, {}, call)
    ELSE Ran(ss_set(ss, "summary_text", sm.outcome.value), g.cache, sm.cache,
             g.msgs, "completed", NoException, g.failed \cup sm.failed,
             {"summary_text"}, call)

\* summary_btn, after get_cached_transcript(url, 'en') did g
summary_after_transcript(ss, sc, t, env, g, call) ==
    IF g.outcome.kind = "raise"
    THEN Ran(ss, g.cache, sc, Append(g.msgs, st_error("Unable to generate summary")),
             "completed", NoException, g.failed, {}, call)
    ELSE IF g.outcome.value = None
    THEN Ran(ss, g.cache, sc, g.msgs, "stopped", NoException, g.failed, {}, call)
    ELSE summary_generated(ss, sc, g, call,
             generate_cached_summary(g.outcome.value.text, env.llm, sc, t))

summary_called(u, ss, sc, t, env, g) ==
    summary_after_transcript(ss, sc, t, env, g, CachedCall(u, "en", g))

\* if st.button("Generate Summary", key="summary_btn"): ...
summary_btn_handler(u, ss, tc, sc, t, env) ==
    summary_called(u, ss, sc, t, env,
                   get_cached_transcript(u, "en", env.provider, tc, t))

\* ask_btn, after get_transcript(url, 'en') did g
ask_after_transcript(ss, tc, sc, env, g) ==
    IF g.outcome.kind = "raise"
    THEN Ran(ss, tc, sc, Append(g.msgs, st_error("Unable to process your question")),
             "completed", NoException, g.failed, {}, NoCall)
    ELSE IF g.outcome.value = None
    THEN Ran(ss, tc, sc, g.msgs, "stopped", NoException, g.failed, {}, NoCall)
    ELSE IF env.llm.kind = "raise"
    THEN Ran(ss, tc, sc, Append(g.msgs, st_error("Unable to process your question")),
             "completed", NoException, g.failed \cup {"llm"}, {}, NoCall)
    ELSE Ran(ss_set(ss, "ai_answer_text", env.llm.value), tc, sc, g.msgs,
             "completed", NoException, g.failed, {"ai_answer_text"}, NoCall)

\* if user_question and st.button("Ask AI", key="ask_btn"): ...
ask_btn_handler(u, ss, tc, sc, t, env) ==
    ask_after_transcript(ss, tc, sc, env, get_transcript(u, "en", env.provider))

transcript_after_call_clears(ss, sc, g, call) ==
    IF g.outcome.kind = "raise"
    THEN Ran(ss, g.cache, sc,
             Append(g.msgs, st_error("An error occurred while fetching transcript")),
             "completed", NoException, g.failed, {}, call)
    ELSE IF g.outcome.value = None
    THEN Ran(ss_set(ss, "transcript_text", <<>>), g.cache, sc, g.msgs, "stopped",
             NoException, g.failed, {}, call)
    ELSE Ran(ss_set(ss, "transcript_text", g.outcome.value.text), g.cache, sc,
             g.msgs, "completed", NoException, g.failed, {"transcript_text"}, call)

\* transcript_btn, after get_cached_transcript(url, target_language) did g
transcript_after_call(ss, sc, g, call) ==
    IF g.outcome.kind = "raise"
    THEN Ran(ss, g.cache, sc,
             Append(g.msgs, st_error("An error occurred while fetching transcript")),
             "completed", NoException, g.failed, {}, call)
    ELSE IF g.outcome.value = None
    THEN Ran(ss, g.cache, sc, g.msgs, "stopped", NoException, g.failed, {}, call)
    ELSE Ran(ss_set(ss, "transcript_text", g.outcome.value.text), g.cache, sc,
             g.msgs, "completed", NoException, g.failed, {"transcript_text"}, call)

transcript_called(u, lang, ss, sc, g) ==
    transcript_after_call(ss, sc, g, CachedCall(u, lang, g))

\* if st.button("Get Transcript", key="transcript_btn"): ...
transcript_btn_handler(u, lang, ss, tc, sc, t, env) ==
    transcript_called(u, lang, ss, sc,
                      get_cached_transcript(u, lang, env.provider, tc, t))

\* if st.button("Read Aloud ..."): audio_fp = tts_audio(st.session_state[key]) ...
read_aloud_handler(key, ss, tc, sc, env) ==
    IF key \notin DOMAIN ss
    THEN Ran(ss, tc, sc, <<>>, "completed", NoException, {}, {}, NoCall)
    ELSE IF env.tts.kind = "raise"
    THEN Ran(ss, tc, sc, <<>>, "completed", env.tts.exc, {"tts"}, {}, NoCall)
    ELSE Ran(ss, tc, sc, <<>>, "completed", NoException, {}, {}, NoCall)

Buttons ==
    {"summary_btn", "summary_audio", "ask_btn", "ai_answer_audio",
     "transcript_btn", "transcript_audio"}

\* the body of the script's try (lines 408-542) with `button` pressed
script_try(u, lang, question, ss, tc, sc, t, button, env) ==
    LET video_id == video_id_of(u)
        idle == Ran(ss, tc, sc, <<>>, "completed", NoException, {}, {}, NoCall)
    IN  IF video_id.kind = "raise" THEN [idle EXCEPT !.exc = video_id.exc]
        ELSE IF video_id.kind = "else"
        THEN [idle EXCEPT !.exc = Exc("ValueError", "Invalid YouTube URL format")]
        ELSE CASE button = "summary_btn" ->
                    summary_btn_handler(u, ss, tc, sc, t, env)
               [] button = "summary_audio" ->
                    read_aloud_handler("summary_text", ss, tc, sc, env)
               [] button = "ask_btn" ->
                    IF question # "" THEN ask_btn_handler(u, ss, tc, sc, t, env)
                    ELSE idle
               [] button = "ai_answer_audio" ->
                    read_aloud_handler("ai_answer_text", ss, tc, sc, env)
               [] button = "transcript_btn" ->
                    transcript_btn_handler(u, lang, ss, tc, sc, t, env)
               [] button = "transcript_audio" ->
                    read_aloud_handler("transcript_text", ss, tc, sc, env)
               [] OTHER -> idle

script_catches_index_error_only(exc) == exc.type = "IndexError"

\* except IndexError: ... / except Exception as e: ...   (lines 544-547)
script_catches(exc) == TRUE

\* the except clauses, for what the try block did
script_except(r) ==
    IF r.exc = NoException THEN r
    ELSE IF script_catches(r.exc)
    THEN [r EXCEPT !.exc = NoException,
                   !.msgs = Append(r.msgs,
                                IF r.exc.type = "IndexError"
                                THEN st_error("Invalid YouTube URL")
                                ELSE st_error("An unexpected error occurred"))]
    ELSE [r EXCEPT !.ended = "crashed"]

\* if url: try: ... except IndexError: ... except Exception: ...
script(u, lang, question, ss, tc, sc, t, button, env) ==
    IF u = <<>>
    THEN Ran(ss, tc, sc, <<>>, "completed", NoException, {}, {}, NoCall)
    ELSE script_except(script_try(u, lang, question, ss, tc, sc, t, button, env))

(***************************************************************************)
(* The audio variant (lines 560-625)                                       *)
(***************************************************************************)
Path(p) == [none |-> FALSE, path |-> p]

AudioEnvs ==
    [download : {Raise(Exc("PytubeError", "download")), Return(Path("audio.mp4"))},
     convert : {Raise(Exc("OSError", "convert")), Return(Path("audio.wav"))},
     recognize : {Raise(Exc("RequestError", "recognize")),
                  Return(<<>>), Return(<<"t">>), Return(<<"u">>)},
     cleanup_ok : BOOLEAN]

\* a function of the audio variant: its value, messages and failed calls
AudioDid(value, msgs, failed) == [value |-> value, msgs |-> msgs, failed |-> failed]

download_audio(env) ==
    IF env.download.kind = "raise"
    THEN AudioDid(None, <<st_error("Error downloading audio")>>, {"download"})
    ELSE AudioDid(env.download.value, <<>>, {})

convert_to_wav(env) ==
    IF env.convert.kind = "raise"
    THEN AudioDid(None, <<st_error("Error converting to WAV")>>, {"convert"})
    ELSE AudioDid(env.convert.value, <<>>, {})

transcribe_audio(env) ==
    IF env.recognize.kind = "raise"
    THEN AudioDid(None, <<st_error("Error transcribing audio")>>, {"recognize"})
    ELSE AudioDid([none |-> FALSE, text |-> env.recognize.value], <<>>, {})

\* main(), with the "Generate Transcript" button pressed
audio_main(has_url, env) ==
    IF ~has_url
    THEN AudioDid(None, <<st_warning("Please enter a YouTube URL")>>, {})
    ELSE LET a == download_audio(env)
         IN  IF a.value = None THEN a
             ELSE LET w == convert_to_wav(env)
                  IN  IF w.value = None THEN w
                      ELSE LET tr == transcribe_audio(env)
                           IN  IF tr.value = None \/ tr.value.text = <<>>
                               THEN AudioDid(None, tr.msgs, tr.failed)
                               ELSE AudioDid(tr.value,
                                        <<[level |-> "success",
                                           text |-> "Transcript generated successfully!"]>>,
                                        IF env.cleanup_ok THEN {} ELSE {"cleanup"})

(***************************************************************************)
(* Specification of a session: widget changes, button presses, the clock   *)
(***************************************************************************)
MaxRuns == 2

MaxTicks == 2

TickSeconds == 3600

AppLanguages == {"en", "hi"}

Questions == {"", "q"}

\* a video with a manual English track whose text is " a" and whose
\* translation is "b", and four ways it can misbehave
GoodProvider ==
    [list_failures |-> 0, tracks |-> {Track("en", FALSE)}, translate_ok |-> TRUE,
     fetch |-> Return(<<Fragment(<<" ", "a">>)>>),
     fetch_translated |-> Return(<<Fragment(<<"b">>)>>)]

AppProviders ==
    { GoodProvider,
      [GoodProvider EXCEPT !.list_failures = 1],
      [GoodProvider EXCEPT !.tracks = {}],
      [GoodProvider EXCEPT !.translate_ok = FALSE],
      [GoodProvider EXCEPT !.fetch = Raise(FetchError)] }

AppUrls ==
    { <<"youtu.be", "/", "x", "?", "t">>,
      <<"e", "/", "x">>,
      <<"youtu.be">> }

Envs == [provider : AppProviders, llm : LlmOutcomes, tts : TtsOutcomes]

QuietEnv ==
    [provider |-> GoodProvider, llm |-> Return(<<"s">>), tts |-> Return("audio")]

\* the widgets below the URL input exist once the URL has yielded a video id
Rendered == url # <<>> /\ video_id_of(url).kind = "return"

RunRecord(button, r) ==
    [button |-> button, ended |-> r.ended, msgs |-> r.msgs, failed |-> r.failed,
     wrote |-> r.wrote, call |-> r.call]

\* one run of the script
Rerun(u, lang, question, button, env) ==
    \E r \in {script(u, lang, question, session_state, transcript_cache,
                    summary_cache, now, button, env)} :
        /\ url' = u
        /\ target_language' = lang
        /\ user_question' = question
        /\ session_state' = r.session_state
        /\ transcript_cache' = r.transcript_cache
        /\ summary_cache' = r.summary_cache
        /\ run' = RunRecord(button, r)
        /\ UNCHANGED <<now, audio_args, retry_vars, gt_vars>>

\* a button can be pressed: the widgets are rendered and a run remains
CanPress ==
    /\ audio_args = NotCalled
    /\ nruns < MaxRuns
    /\ Rendered

Press(button, env) ==
    /\ nruns' = nruns + 1
    /\ Rerun(url, target_language, user_question, button, env)

\* a session of the main app, or one of the audio variant with its inputs
AppInit ==
    /\ RetryIdle
    /\ GtIdle
    /\ url = <<>>
    /\ target_language = "en"
    /\ user_question = ""
    /\ session_state = [k \in {} |-> <<>>]
    /\ transcript_cache = [k \in {} |-> None]
    /\ summary_cache = [k \in {} |-> None]
    /\ now = 0
    /\ run = NotCalled
    /\ nruns = 0
    /\ \/ audio_args = NotCalled
       \/ audio_args \in [has_url : BOOLEAN, env : AudioEnvs]

\* the user changes an input, which reruns the script with no button pressed;
\* a session is followed up to its MaxRuns-th button press
EnterUrl ==
    /\ audio_args = NotCalled
    /\ nruns < MaxRuns
    /\ \E u \in AppUrls \cup {<<>>} :
        /\ u # url
        /\ UNCHANGED nruns
        /\ Rerun(u, target_language, user_question, "none", QuietEnv)

SelectLanguage ==
    /\ nruns < MaxRuns
    /\ Rendered
    /\ \E lang \in AppLanguages :
        /\ lang # target_language
        /\ UNCHANGED nruns
        /\ Rerun(url, lang, user_question, "none", QuietEnv)

EnterQuestion ==
    /\ nruns < MaxRuns
    /\ Rendered
    /\ \E question \in Questions :
        /\ question # user_question
        /\ UNCHANGED nruns
        /\ Rerun(url, target_language, question, "none", QuietEnv)

PressSummary ==
    /\ CanPress
    /\ \E provider \in AppProviders, llm \in LlmOutcomes :
        Press("summary_btn", [QuietEnv EXCEPT !.provider = provider, !.llm = llm])

PressSummaryAudio ==
    /\ CanPress
    /\ "summary_text" \in DOMAIN session_state
    /\ \E tts \in TtsOutcomes :
        Press("summary_audio", [QuietEnv EXCEPT !.tts = tts])

PressAsk ==
    /\ CanPress
    /\ user_question # ""
    /\ \E provider \in AppProviders, llm \in LlmOutcomes :
        Press("ask_btn", [QuietEnv EXCEPT !.provider = provider, !.llm = llm])

PressAnswerAudio ==
    /\ CanPress
    /\ "ai_answer_text" \in DOMAIN session_state
    /\ \E tts \in TtsOutcomes :
        Press("ai_answer_audio", [QuietEnv EXCEPT !.tts = tts])

PressGetTranscript ==
    /\ CanPress
    /\ \E provider \in AppProviders :
        Press("transcript_btn", [QuietEnv EXCEPT !.provider = provider])

PressTranscriptAudio ==
    /\ CanPress
    /\ "transcript_text" \in DOMAIN session_state
    /\ \E tts \in TtsOutcomes :
        Press("transcript_audio", [QuietEnv EXCEPT !.tts = tts])

\* the audio variant's "Generate Transcript" button
PressAudioGenerate ==
    /\ audio_args # NotCalled
    /\ run = NotCalled
    /\ LET a == audio_main(audio_args.has_url, audio_args.env)
       IN  run' = [button |-> "audio_generate", ended |-> "completed",
                   msgs |-> a.msgs, failed |-> a.failed, wrote |-> {},
                   call |-> NoCall]
    /\ UNCHANGED <<url, target_language, user_question, session_state,
                   transcript_cache, summary_cache, now, audio_args, nruns,
                   retry_vars, gt_vars>>

\* time passes between two runs
Tick ==
    /\ audio_args = NotCalled
    /\ now < MaxTicks * TickSeconds
    /\ nruns < MaxRuns
    /\ now' = now + TickSeconds
    /\ UNCHANGED <<url, target_language, user_question, session_state,
                   transcript_cache, summary_cache, run, audio_args, nruns,
                   retry_vars, gt_vars>>

AppNext ==
    \/ EnterUrl
    \/ SelectLanguage
    \/ EnterQuestion
    \/ PressSummary
    \/ PressSummaryAudio
    \/ PressAsk
    \/ PressAnswerAudio
    \/ PressGetTranscript
    \/ PressTranscriptAudio
    \/ PressAudioGenerate
    \/ Tick

SpecApp == AppInit /\ [][AppNext]_vars

\* the external calls whose failure the user is told about
ExternalCalls ==
    {"list", "translate", "fetch", "llm", "tts", "download", "convert", "recognize"}

ShownProblem ==
    \E i \in 1..Len(run.msgs) : run.msgs[i].level \in {"error", "warning"}

SessionKeys == {"summary_text", "ai_answer_text", "transcript_text"}

\* the button whose handler assigns the key
OwnButton(key) ==
    CASE key = "summary_text" -> "summary_btn"
      [] key = "ai_answer_text" -> "ask_btn"
      [] key = "transcript_text" -> "transcript_btn"

RunShowedError(r) == \E i \in 1..Len(r.msgs) : r.msgs[i].level = "error"

\* this step is a press of the key's own button whose run went through to
\* the end without reporting an error
OwnSuccess(key) ==
    /\ nruns' = nruns + 1
    /\ run'.button = OwnButton(key)
    /\ run'.ended = "completed"
    /\ ~RunShowedError(run')

C13_Step ==
    \A key \in SessionKeys :
        /\ key \in DOMAIN session_state => key \in DOMAIN session_state'
        /\ ~OwnSuccess(key) =>
              /\ key \in DOMAIN session_state' <=> key \in DOMAIN session_state
              /\ key \in DOMAIN session_state =>
                    session_state'[key] = session_state[key]
        /\ OwnSuccess(key) => key \in DOMAIN session_state'
        /\ (key = "transcript_text" /\ OwnSuccess(key)) =>
              session_state'[key] = run'.call.outcome.value.text

\* C13: summary_text, ai_answer_text and transcript_text are written only in
\* a step in which the key's own operation completed successfully; in every
\* other step (a failed operation, another button, a change of the URL, the
\* language or the question) the key keeps its value and is never cleared.
C13_SessionKeysFrame == [][C13_Step]_vars

\* a summary is held, and the last run was a Generate Summary press that
\* failed: the earlier summary is still there
C13_Witness ==
    /\ run # NotCalled
    /\ run.button = "summary_btn"
    /\ RunShowedError(run)
    /\ run.wrote = {}
    /\ "summary_text" \in DOMAIN session_state

(***************************************************************************)
(* Specification of the two cached functions alone, with the clock         *)
(***************************************************************************)
CacheUrls ==
    { <<"youtube.com", "/", "w", "?", "v=", "x", "&", "t">>,
      <<"youtu.be", "/", "x", "?", "t">>,
      <<"e", "/", "x">> }

CacheTexts == {<<"a">>, <<"b">>}

CacheInit == RetryIdle /\ GtIdle /\ AppIdle

CallGetCachedTranscript ==
    /\ nruns < MaxRuns
    /\ \E u \in CacheUrls, lang \in AppLanguages, provider \in AppProviders :
        \E g \in {get_cached_transcript(u, lang, provider, transcript_cache, now)} :
            /\ nruns' = nruns + 1
            /\ transcript_cache' = g.cache
            /\ run' = [button |-> "get_cached_transcript", ended |-> "completed",
                       msgs |-> g.msgs, failed |-> g.failed, wrote |-> {},
                       call |-> CachedCall(u, lang, g)]
            /\ UNCHANGED <<url, target_language, user_question, session_state,
                           summary_cache, now, audio_args, retry_vars, gt_vars>>

CallGenerateCachedSummary ==
    /\ nruns < MaxRuns
    /\ \E transcript_text \in CacheTexts, llm \in LlmOutcomes :
        \E sm \in {generate_cached_summary(transcript_text, llm, summary_cache, now)} :
            /\ nruns' = nruns + 1
            /\ summary_cache' = sm.cache
            /\ run' = [button |-> "generate_cached_summary", ended |-> "completed",
                       msgs |-> <<>>, failed |-> sm.failed, wrote |-> {},
                       call |-> [called |-> TRUE, key |-> transcript_text,
                                 executed |-> sm.executed, list_calls |-> 0,
                                 outcome |-> sm.outcome]]
            /\ UNCHANGED <<url, target_language, user_question, session_state,
                           transcript_cache, now, audio_args, retry_vars, gt_vars>>

CacheNext ==
    \/ CallGetCachedTranscript
    \/ CallGenerateCachedSummary
    \/ Tick

SpecCache == CacheInit /\ [][CacheNext]_vars

\* the entry under key is younger than 7200 s at time t
FreshTranscript(key, t) ==
    key \in DOMAIN transcript_cache /\ t - transcript_cache[key].stored < 7200

\* a step that is a call of get_cached_transcript
TranscriptCallStep ==
    nruns' = nruns + 1 /\ run'.button = "get_cached_transcript"

C4_Step ==
    /\ TranscriptCallStep =>
          /\ FreshTranscript(run'.call.key, now) =>
                /\ ~run'.call.executed
                /\ run'.call.list_calls = 0
                /\ run'.call.outcome = Return(transcript_cache[run'.call.key].value)
          /\ ~FreshTranscript(run'.call.key, now) =>
                /\ run'.call.executed
                /\ run'.call.key \in DOMAIN transcript_cache'
                /\ transcript_cache'[run'.call.key].value = run'.call.outcome.value
                /\ transcript_cache'[run'.call.key].stored = now
    /\ \A key \in DOMAIN transcript_cache :
          FreshTranscript(key, now') =>
              /\ key \in DOMAIN transcript_cache'
              /\ transcript_cache'[key] = transcript_cache[key]

\* C4: a call of get_cached_transcript whose (url, language) has an entry
\* stored less than 7200 s ago returns that entry's result without executing
\* the retrieval; any other call (no entry under exactly that url and
\* language, or an expired one) executes it and stores its result; an entry
\* stays as stored until it has expired.
C4_CachedWithinTtl == [][C4_Step]_vars

\* a second call, one hour after the first, served from the cache
C4_Witness ==
    /\ run # NotCalled
    /\ run.button = "get_cached_transcript"
    /\ ~run.call.executed
    /\ now = TickSeconds
    /\ IsRecord(run.call.outcome.value)

\* C5: only successful results are memoized: no cache entry holds a failed
\* retrieval, and a call that ends in failure has executed the retrieval
\* (it was not served from a stored failure).
C5_OnlySuccessMemoized ==
    /\ \A key \in DOMAIN transcript_cache : transcript_cache[key].value # None
    /\ ( /\ run # NotCalled
         /\ run.button = "get_cached_transcript"
         /\ run.call.outcome.value = None ) => run.call.executed

=============================================================================
